---- MODULE Spec2Model ----
(***************************************************************************)
(* Model of seal/util/rlwe.cpp: the four polynomial samplers               *)
(* (sample_poly_ternary, sample_poly_normal, sample_poly_cbd,              *)
(* sample_poly_uniform) and the two zero-ciphertext generators             *)
(* (encrypt_zero_asymmetric, encrypt_zero_symmetric).                      *)
(*                                                                         *)
(* Machine words are 2*HalfBits bits wide (64 in the program, where a raw  *)
(* uniform draw is two 32-bit engine outputs); all word arithmetic wraps   *)
(* modulo WordMod.  Real-valued globals are held in hundredths.            *)
(***************************************************************************)
EXTENDS Integers, Sequences, FiniteSets

\* ------------------------------------------------------------------ bounds

\* Half of the machine word width in bits (32 in the program).
HalfBits == 3

\* Number of distinct seeds the bootstrap generator may hand out.
NumSeeds == 2

\* Number of distinct keys offered to the zero-ciphertext generators.
NumKeys == 2

\* ------------------------------------------------------------- word model

RECURSIVE Pow2(_)
Pow2(n) == IF n = 0 THEN 1 ELSE 2 * Pow2(n - 1)

HalfMod == Pow2(HalfBits)

WordMod == HalfMod * HalfMod

\* max_random = 0xFFFFFFFFFFFFFFFF, also the seed-compression marker.
MaxRandom == WordMod - 1

\* static_cast<uint64_t>(v) of a signed value; also the wrap of word sums.
ToWord(v) == v % WordMod

RECURSIVE BitAnd(_, _)
BitAnd(a, b) ==
    IF a = 0 \/ b = 0 THEN 0
    ELSE (a % 2) * (b % 2) + 2 * BitAnd(a \div 2, b \div 2)

\* static_cast<uint64_t>(-static_cast<int64_t>(cond)): all ones or zero.
Flag(cond) == IF cond THEN MaxRandom ELSE 0

\* ------------------------------------------------------ parameter sets

Parms(n, q) == [coeff_count |-> n, coeff_modulus |-> q]

CoeffCount(p) == p.coeff_count

CoeffModulusSize(p) == Len(p.coeff_modulus)

Modulus(p, j) == p.coeff_modulus[j + 1]

PolyIndex(p) == 0 .. (CoeffCount(p) * CoeffModulusSize(p) - 1)

\* Parameter sets offered to the samplers.
TernaryParams == {Parms(2, <<5, 13>>), Parms(2, <<29, 37>>), Parms(4, <<41>>)}

NoiseParams == {Parms(2, <<5, 13>>), Parms(2, <<29, 37>>)}

UniformParams == {Parms(2, <<5, 13>>), Parms(2, <<61>>)}

\* Parameter sets offered to the zero-ciphertext generators: every modulus
\* is an NTT prime for its degree (q = 1 mod 2N).
EncParams ==
    {Parms(2, <<29, 37, 41, 53>>), Parms(2, <<29, 37, 41, 53, 61>>), Parms(4, <<41>>)}

\* ---------------------------------------------------------------- state

VARIABLES
    op,            \* the routine being run
    pc,            \* position inside the routine
    parms,         \* the EncryptionParameters in use
    cfg,           \* global_variables and build switches
    poly,          \* a sampler's destination buffer (limb-major)
    I,             \* coefficient index of the running loop
    J,             \* limb index of the running loop
    draws,         \* the value drawn for each finished coefficient
    ndraws,        \* ternary, normal, cbd: number of draws taken so far
    rand,          \* sample_poly_uniform: the last raw draw
    rejected,      \* sample_poly_uniform: whether the last raw draw was redrawn
    x,             \* sample_poly_cbd: the six bytes of the running cbd call
    enc            \* state of a zero-ciphertext generator call

svars == <<poly, I, J, draws, ndraws, rand, rejected, x>>

vars == <<op, pc, parms, cfg, poly, I, J, draws, ndraws, rand, rejected, x, enc>>

\* A pre-sized destination buffer whose content the sampler never reads.
StalePoly(p) == [k \in PolyIndex(p) |-> MaxRandom]

\* set_zero_poly(coeff_count, coeff_modulus_size, destination)
SetZeroPoly(p) == [k \in PolyIndex(p) |-> 0]

\* are_close(value, 0.0) at the resolution of the model (hundredths).
AreClose(a, b) == a = b

\* Writes value f[j] at coefficient i of every limb j (the StrideIter loop).
StoreLimbs(buf, p, i, f) ==
    [k \in DOMAIN buf |->
        IF k % CoeffCount(p) = i THEN f[k \div CoeffCount(p)] ELSE buf[k]]

\* ------------------------------------------------- sample_poly_ternary

TernaryValueNoMask(r, q) == ToWord(r - 1)

\* rand + (flag & modulus) - 1, flag all ones iff rand == 0
TernaryValue(r, q) == ToWord(r + BitAnd(Flag(r = 0), q) - 1)

\* One pass of the outer SEAL_ITERATE: one draw, written to every limb.
TernaryCoeff(buf, p, i, r) ==
    StoreLimbs(buf, p, i, [j \in 0 .. (CoeffModulusSize(p) - 1) |-> TernaryValue(r, Modulus(p, j))])

SamplePolyTernaryEnter ==
    /\ op = "ternary" /\ pc = "call"
    /\ pc' = "loop"
    /\ UNCHANGED <<op, parms, cfg, svars, enc>>

SamplePolyTernaryStep ==
    /\ op = "ternary" /\ pc = "loop"
    /\ \E r \in 0 .. 2 :
        /\ poly' = TernaryCoeff(poly, parms, I, r)
        /\ draws' = Append(draws, r)
    /\ ndraws' = ndraws + 1
    /\ I' = I + 1
    /\ pc' = IF I + 1 = CoeffCount(parms) THEN "done" ELSE "loop"
    /\ UNCHANGED <<op, parms, cfg, J, rand, rejected, x, enc>>

\* ------------------------------------- sample_poly_normal / sample_poly_cbd

NoiseValueNoMask(noise, q) == ToWord(noise)

\* static_cast<uint64_t>(noise) + (flag & modulus), flag all ones iff noise < 0
NoiseValue(noise, q) == ToWord(ToWord(noise) + BitAnd(Flag(noise < 0), q))

NoiseCoeff(buf, p, i, noise) ==
    StoreLimbs(buf, p, i, [j \in 0 .. (CoeffModulusSize(p) - 1) |-> NoiseValue(noise, Modulus(p, j))])

\* Values (in hundredths) a ClippedNormalDistribution clipped at maxdev returns.
DistOutputs(maxdev) ==
    {d \in (-maxdev) .. maxdev : d % 50 = 0 \/ d = maxdev \/ d = -maxdev}

\* static_cast<int64_t>(double): truncation towards zero.
Truncate(d) == IF d >= 0 THEN d \div 100 ELSE -((-d) \div 100)

SamplePolyNormalEnter ==
    /\ op = "normal" /\ pc = "call"
    /\ IF AreClose(cfg.noise_max_deviation, 0)
       THEN /\ poly' = SetZeroPoly(parms)
            /\ pc' = "done"
       ELSE /\ poly' = poly
            /\ pc' = "loop"
    /\ UNCHANGED <<op, parms, cfg, I, J, draws, ndraws, rand, rejected, x, enc>>

SamplePolyNormalStep ==
    /\ op = "normal" /\ pc = "loop"
    /\ \E d \in DistOutputs(cfg.noise_max_deviation) :
        /\ poly' = NoiseCoeff(poly, parms, I, Truncate(d))
        /\ draws' = Append(draws, Truncate(d))
    /\ ndraws' = ndraws + 1
    /\ I' = I + 1
    /\ pc' = IF I + 1 = CoeffCount(parms) THEN "done" ELSE "loop"
    /\ UNCHANGED <<op, parms, cfg, J, rand, rejected, x, enc>>

\* The only standard deviation sample_poly_cbd accepts, 3.2, in hundredths.
CbdDeviation == 320

CbdRejectsDeviationNever(sd) == FALSE

\* global_variables::noise_standard_deviation != 3.2
CbdRejectsDeviation(sd) == sd # CbdDeviation

Byte == (-128) .. 127

\* x >> n of a promoted int8_t (arithmetic shift; hw reads only bits below
\* the sign bits shifted in, so a logical shift gives the same counts)
Shr(v, n) == v \div Pow2(n)

\* v & mask of a promoted int8_t, for a mask below 256
And8(v, mask) == BitAnd(v % 256, mask)

HwNoCarry(b) ==
    LET t == And8(b, 85) + And8(Shr(b, 1), 85)
    IN  And8(t, 3) + And8(Shr(t, 2), 3) + And8(Shr(t, 4), 3)

\* auto hw = [](int8_t x) { ... }
Hw(b) ==
    LET t == And8(b, 85) + And8(Shr(b, 1), 85)
    IN  And8(t, 3) + And8(Shr(t, 2), 3) + And8(Shr(t, 4), 3) + And8(Shr(t, 6), 3)

\* x[2] &= 0x1F; x[5] &= 0x1F;  (x is indexed from 1 here)
CbdMask(b) == [k \in 1 .. 6 |-> IF k \in {3, 6} THEN And8(b[k], 31) ELSE b[k]]

\* hw(x[0]) + hw(x[1]) + hw(x[2]) - hw(x[3]) - hw(x[4]) - hw(x[5])
CbdSum(b) == Hw(b[1]) + Hw(b[2]) + Hw(b[3]) - Hw(b[4]) - Hw(b[5]) - Hw(b[6])

\* Byte values offered at the free position of a generated block.
ByteSamples == {-128, -86, -32, -1, 0, 1, 31, 32, 85, 127}

\* Six-byte blocks rng->generate may return: an all-zero, all-ones, or
\* half-and-half block with one position replaced by a sample byte.
ByteBlocks ==
    LET base == { [k \in 1 .. 6 |-> 0], [k \in 1 .. 6 |-> -1],
                  [k \in 1 .. 6 |-> IF k <= 3 THEN -1 ELSE 0],
                  [k \in 1 .. 6 |-> IF k <= 3 THEN 0 ELSE -1] }
    IN  { [b EXCEPT ![pos] = v] : b \in base, pos \in 1 .. 6, v \in ByteSamples }

SamplePolyCbdEnter ==
    /\ op = "cbd" /\ pc = "call"
    /\ IF AreClose(cfg.noise_max_deviation, 0)
       THEN /\ poly' = SetZeroPoly(parms)
            /\ pc' = "done"
       ELSE /\ poly' = poly
            /\ pc' = IF CbdRejectsDeviation(cfg.noise_standard_deviation)
                     THEN "thrown" ELSE "loop"
    /\ UNCHANGED <<op, parms, cfg, I, J, draws, ndraws, rand, rejected, x, enc>>

\* cbd(rng), first half: generate six bytes and mask the third and sixth.
SamplePolyCbdDraw ==
    /\ op = "cbd" /\ pc = "loop"
    /\ \E b \in ByteBlocks : x' = CbdMask(b)
    /\ ndraws' = ndraws + 1
    /\ pc' = "cbd"
    /\ UNCHANGED <<op, parms, cfg, poly, I, J, draws, rand, rejected, enc>>

\* cbd(rng), second half, and the store of the value into every limb.
SamplePolyCbdStore ==
    /\ op = "cbd" /\ pc = "cbd"
    /\ poly' = NoiseCoeff(poly, parms, I, CbdSum(x))
    /\ draws' = Append(draws, CbdSum(x))
    /\ x' = <<>>
    /\ I' = I + 1
    /\ pc' = IF I + 1 = CoeffCount(parms) THEN "done" ELSE "loop"
    /\ UNCHANGED <<op, parms, cfg, J, ndraws, rand, rejected, enc>>

\* ------------------------------------------------- sample_poly_uniform

\* barrett_reduce_64(input, modulus)
BarrettReduce64(v, q) == v % q

\* max_random - barrett_reduce_64(max_random, modulus) - 1
MaxMultiple(q) == MaxRandom - BarrettReduce64(MaxRandom, q) - 1

\* (static_cast<uint64_t>(engine()) << 32) | static_cast<uint64_t>(engine())
RawDraw(hi, lo) == hi * HalfMod + lo

\* the do ... while condition: the draw is thrown away and repeated
UniformRedraw(r, q) == r >= MaxMultiple(q)

SamplePolyUniformEnter ==
    /\ op = "uniform" /\ pc = "call"
    /\ pc' = "loop"
    /\ UNCHANGED <<op, parms, cfg, svars, enc>>

\* One pass of the do-while body: a raw draw, then either a redraw or the
\* store of the reduced value and the move to the next coefficient.
SamplePolyUniformDraw ==
    /\ op = "uniform" /\ pc = "loop"
    /\ \E hi \in 0 .. (HalfMod - 1), lo \in 0 .. (HalfMod - 1) :
        LET r == RawDraw(hi, lo)
            q == Modulus(parms, J)
            lastI == I + 1 = CoeffCount(parms)
            lastJ == J + 1 = CoeffModulusSize(parms)
        IN  IF UniformRedraw(r, q)
            THEN /\ rand' = r
                 /\ rejected' = TRUE
                 /\ UNCHANGED <<poly, I, J, pc>>
            ELSE /\ rand' = 0
                 /\ rejected' = FALSE
                 /\ poly' = [poly EXCEPT ![I + J * CoeffCount(parms)] = BarrettReduce64(r, q)]
                 /\ I' = IF lastI THEN 0 ELSE I + 1
                 /\ J' = IF lastI THEN J + 1 ELSE J
                 /\ pc' = IF lastI /\ lastJ THEN "done" ELSE "loop"
    /\ UNCHANGED <<op, parms, cfg, draws, ndraws, x, enc>>

\* --------------------------------------------- specification: samplers

\* (noise_standard_deviation, noise_max_deviation) in hundredths
NoiseConfigs ==
    { [noise_standard_deviation |-> sd, noise_max_deviation |-> md,
       use_gaussian |-> FALSE, debug |-> FALSE] : sd \in {320, 319}, md \in {0, 1920} }

NoEnc == [phase |-> "none"]

SamplerInit ==
    /\ op \in {"ternary", "normal", "cbd", "uniform"}
    /\ pc = "call"
    /\ parms \in CASE op = "ternary" -> TernaryParams
                   [] op = "uniform" -> UniformParams
                   [] OTHER -> NoiseParams
    /\ cfg \in NoiseConfigs
    /\ (op \in {"ternary", "uniform"} =>
            cfg.noise_standard_deviation = 320 /\ cfg.noise_max_deviation = 1920)
    /\ poly = StalePoly(parms)
    /\ I = 0 /\ J = 0
    /\ draws = <<>>
    /\ ndraws = 0
    /\ rand = 0
    /\ rejected = FALSE
    /\ x = <<>>
    /\ enc = NoEnc

SamplerNext ==
    \/ SamplePolyTernaryEnter
    \/ SamplePolyTernaryStep
    \/ SamplePolyNormalEnter
    \/ SamplePolyNormalStep
    \/ SamplePolyCbdEnter
    \/ SamplePolyCbdDraw
    \/ SamplePolyCbdStore
    \/ SamplePolyUniformEnter
    \/ SamplePolyUniformDraw

SpecSamplers == SamplerInit /\ [][SamplerNext]_vars

\* ------------------------------------------- external kernels (interfaces)

RECURSIVE PowMod(_, _, _)
PowMod(b, e, q) == IF e = 0 THEN 1 % q ELSE (b * PowMod(b, e - 1, q)) % q

RECURSIVE SumTo(_, _)
\* f[0] + ... + f[n - 1]
SumTo(f, n) == IF n = 0 THEN 0 ELSE f[n - 1] + SumTo(f, n - 1)

\* ntt_tables[i]: a primitive 2n-th root of unity modulo q (n a power of two)
Psi(n, q) == CHOOSE r \in 2 .. (q - 1) : PowMod(r, n, q) = q - 1

\* Forward negacyclic NTT of one limb: the values at the odd powers of psi.
NttLimb(a, n, q) ==
    LET psi == Psi(n, q)
    IN  [k \in 0 .. (n - 1) |->
            SumTo([j \in 0 .. (n - 1) |-> (a[j] * PowMod(psi, ((2 * k + 1) * j) % (2 * n), q)) % q], n) % q]

\* Inverse negacyclic NTT of one limb.
InvNttLimb(b, n, q) ==
    LET psiInv == PowMod(Psi(n, q), 2 * n - 1, q)
        nInv   == PowMod(n % q, q - 2, q)
    IN  [j \in 0 .. (n - 1) |->
            (nInv * (SumTo([k \in 0 .. (n - 1) |->
                        (b[k] * PowMod(psiInv, ((2 * k + 1) * j) % (2 * n), q)) % q], n) % q)) % q]

\* dyadic_product_coeffmod
DyadicProductCoeffmod(a, b, n, q) == [k \in 0 .. (n - 1) |-> (a[k] * b[k]) % q]

\* add_poly_coeffmod
AddPolyCoeffmod(a, b, n, q) == [k \in 0 .. (n - 1) |-> (a[k] + b[k]) % q]

\* negate_poly_coeffmod
NegatePolyCoeffmod(a, n, q) == [k \in 0 .. (n - 1) |-> (q - a[k]) % q]

\* The n words of limb i of a limb-major buffer (buf + i * coeff_count).
Limb(buf, p, i) == [k \in 0 .. (CoeffCount(p) - 1) |-> buf[i * CoeffCount(p) + k]]

\* The buffer with limb i overwritten.
SetLimb(buf, p, i, limb) ==
    [k \in DOMAIN buf |-> IF k \div CoeffCount(p) = i THEN limb[k % CoeffCount(p)] ELSE buf[k]]

\* ntt_negacyclic_harvey(buf + i * coeff_count, ntt_tables[i])
NttNegacyclicHarvey(buf, p, i) ==
    SetLimb(buf, p, i, NttLimb(Limb(buf, p, i), CoeffCount(p), Modulus(p, i)))

\* inverse_ntt_negacyclic_harvey(buf + i * coeff_count, ntt_tables[i])
InverseNttNegacyclicHarvey(buf, p, i) ==
    SetLimb(buf, p, i, InvNttLimb(Limb(buf, p, i), CoeffCount(p), Modulus(p, i)))

\* A default-constructed Ciphertext.
EmptyCiphertext == [size |-> 0, is_ntt_form |-> FALSE, scale |-> 1, data |-> <<>>]

\* destination.resize(context, parms_id, size): old words kept, new ones zero.
Resize(ct, p, size) ==
    [ct EXCEPT !.size = size,
               !.data = [j \in 0 .. (size - 1) |->
                            [k \in PolyIndex(p) |->
                                IF j < ct.size /\ k \in DOMAIN ct.data[j]
                                THEN ct.data[j][k] ELSE 0]]]

\* The n-th seed the bootstrap generator hands out (random_seed_type).
SeedLength == 8

SeedOf(n) == [k \in 1 .. SeedLength |-> (MaxRandom + (n - 1) * (7 * k + 3)) % WordMod]

\* The k-th engine() output of BlakePRNGFactory(seed).create(): a fixed
\* function of the seed and the position in the stream.
Prng(seed, k) ==
    (SumTo([i \in 0 .. (SeedLength - 1) |-> (i + 1) * seed[i + 1]], SeedLength)
        + (k * (k + 1)) \div 2 + 3 * k) % HalfMod

\* The n-th key offered: words of a key polynomial in NTT form.
KeyPoly(n, c, p) ==
    [k \in PolyIndex(p) |-> (7 * n + 11 * c + 3 * k * n + k * k + c * k + 1) % Modulus(p, k \div CoeffCount(p))]

\* The n-th public key: two or three components.
PublicKeyOf(n, p) ==
    [size |-> 2 + (n % 2), data |-> [c \in 0 .. (1 + (n % 2)) |-> KeyPoly(n, c, p)]]

\* The n-th secret key: one polynomial.
SecretKeyOf(n, p) == [size |-> 1, data |-> [c \in 0 .. 0 |-> KeyPoly(n, 0, p)]]

\* ------------------------------------- samplers run to completion

RECURSIVE TernaryFill(_, _, _, _)
\* sample_poly_ternary with the draws r[0], r[1], ...
TernaryFill(buf, p, i, r) ==
    IF i = CoeffCount(p) THEN buf ELSE TernaryFill(TernaryCoeff(buf, p, i, r[i]), p, i + 1, r)

RECURSIVE NoiseFill(_, _, _, _)
\* the sampling loop of sample_poly_normal / sample_poly_cbd with the
\* signed samples v[0], v[1], ...
NoiseFill(buf, p, i, v) ==
    IF i = CoeffCount(p) THEN buf ELSE NoiseFill(NoiseCoeff(buf, p, i, v[i]), p, i + 1, v)

\* What one coefficient of the noise can be drawn as in the generators.
NoiseDraws(c) ==
    IF c.use_gaussian
    THEN {Truncate(d) : d \in {-c.noise_max_deviation, 150}}
    ELSE {CbdSum(CbdMask(b)) : b \in { [k \in 1 .. 6 |-> IF k <= 3 THEN -1 ELSE 0],
                                        [k \in 1 .. 6 |-> IF k <= 3 THEN 0 ELSE -1] }}

\* sample_poly_normal or sample_poly_cbd (SEAL_USE_GAUSSIAN) into buf, with
\* the samples v: the buffer afterwards, or a throw.
SamplePolyNoise(c, p, buf, v) ==
    IF AreClose(c.noise_max_deviation, 0)
    THEN [thrown |-> FALSE, poly |-> SetZeroPoly(p)]
    ELSE IF ~c.use_gaussian /\ CbdRejectsDeviation(c.noise_standard_deviation)
    THEN [thrown |-> TRUE, poly |-> buf]
    ELSE [thrown |-> FALSE, poly |-> NoiseFill(buf, p, 0, v)]

RECURSIVE UniformFill(_, _, _, _, _)
\* sample_poly_uniform reading the stream of the generator keyed with seed:
\* pos is the next word to fill (limb-major), k the next stream position.
UniformFill(buf, p, seed, pos, k) ==
    IF pos = CoeffCount(p) * CoeffModulusSize(p) THEN buf
    ELSE LET q == Modulus(p, pos \div CoeffCount(p))
             r == RawDraw(Prng(seed, k), Prng(seed, k + 1))
         IN  IF UniformRedraw(r, q)
             THEN UniformFill(buf, p, seed, pos, k + 2)
             ELSE UniformFill([buf EXCEPT ![pos] = BarrettReduce64(r, q)], p, seed, pos + 1, k + 2)

\* sample_poly_uniform(BlakePRNGFactory(seed).create(), parms, buf)
SamplePolyUniformSeeded(seed, p, buf) == UniformFill(buf, p, seed, 0, 0)


\* ------------------------------------------- zero-ciphertext generators

\* Parameter sets offered to encrypt_zero_asymmetric.
AsymParams == {Parms(2, <<29, 37>>), Parms(2, <<29, 37, 41>>)}

\* global_variables and build switches (SEAL_USE_GAUSSIAN, SEAL_DEBUG)
\* offered to the generators.
EncConfigs ==
    { [noise_standard_deviation |-> 320, noise_max_deviation |-> 1920,
       use_gaussian |-> FALSE, debug |-> FALSE],
      [noise_standard_deviation |-> 319, noise_max_deviation |-> 1920,
       use_gaussian |-> FALSE, debug |-> FALSE],
      [noise_standard_deviation |-> 319, noise_max_deviation |-> 0,
       use_gaussian |-> FALSE, debug |-> FALSE],
      [noise_standard_deviation |-> 319, noise_max_deviation |-> 1920,
       use_gaussian |-> TRUE, debug |-> FALSE],
      [noise_standard_deviation |-> 320, noise_max_deviation |-> 1920,
       use_gaussian |-> FALSE, debug |-> TRUE] }

\* A ciphertext the caller may pass as destination: a fresh one, or one that
\* already holds two components.
PriorCiphertext(p) ==
    [size |-> 2, is_ntt_form |-> TRUE, scale |-> 2,
     data |-> [c \in 0 .. 1 |-> [k \in PolyIndex(p) |-> 1]]]

RECURSIVE NttFrom(_, _, _)
\* ntt_negacyclic_harvey on limbs i, i + 1, ... of the buffer
NttFrom(buf, p, i) ==
    IF i = CoeffModulusSize(p) THEN buf ELSE NttFrom(NttNegacyclicHarvey(buf, p, i), p, i + 1)

RECURSIVE InverseNttFrom(_, _, _)
\* inverse_ntt_negacyclic_harvey on limbs i, i + 1, ... of the buffer
InverseNttFrom(buf, p, i) ==
    IF i = CoeffModulusSize(p) THEN buf
    ELSE InverseNttFrom(InverseNttNegacyclicHarvey(buf, p, i), p, i + 1)

\* The state of a generator call before its first statement.
EncStart(ct, ntt, save, key, valid, p) ==
    [destination |-> ct, dest0 |-> ct,
     is_ntt_form |-> ntt, save_seed_arg |-> save, save_seed |-> save,
     key |-> key, key_valid |-> valid,
     u |-> <<>>, u0 |-> <<>>, e |-> <<>>, noise |-> <<>>,
     public_rng_seed |-> <<>>, rng_seed |-> <<>>,
     i |-> 0, j |-> 0,
     ntt_count |-> [l \in 0 .. (CoeffModulusSize(p) - 1) |-> 0],
     products |-> {}, oob |-> FALSE, error |-> "none"]

\* ---- encrypt_zero_asymmetric

AsymAfterProductRetransform(i, j, size, limbs) ==
    IF j + 1 < size THEN "ntt_u"
    ELSE IF i + 1 < limbs THEN "ntt_u" ELSE "noise"

\* Where control goes after the product of limb i and component j: the next
\* component of the same limb, the transform of the next limb, or the noise.
AsymAfterProduct(i, j, size, limbs) ==
    IF j + 1 < size THEN "product"
    ELSE IF i + 1 < limbs THEN "ntt_u" ELSE "noise"

\* Validation, resize, flags, and the ternary u.
AsymEnter ==
    /\ op = "asym" /\ pc = "call"
    /\ IF cfg.debug /\ ~enc.key_valid
       THEN /\ pc' = "thrown"
            /\ enc' = [enc EXCEPT !.error = "invalid_argument"]
       ELSE \E r \in [0 .. (CoeffCount(parms) - 1) -> 0 .. 2] :
                LET ct == [Resize(enc.destination, parms, enc.key.size)
                              EXCEPT !.is_ntt_form = enc.is_ntt_form, !.scale = 1]
                    u  == TernaryFill(StalePoly(parms), parms, 0, r)
                IN  /\ enc' = [enc EXCEPT !.destination = ct, !.u = u, !.u0 = u]
                    /\ pc' = "ntt_u"
    /\ UNCHANGED <<op, parms, cfg, svars>>

\* ntt_negacyclic_harvey(u.get() + i * coeff_count, ntt_tables[i])
AsymNttU ==
    /\ op = "asym" /\ pc = "ntt_u"
    /\ enc' = [enc EXCEPT !.u = NttNegacyclicHarvey(enc.u, parms, enc.i),
                          !.ntt_count[enc.i] = @ + 1]
    /\ pc' = "product"
    /\ UNCHANGED <<op, parms, cfg, svars>>

\* The body of the inner loop over the components j.
AsymProduct ==
    /\ op = "asym" /\ pc = "product"
    /\ LET i == enc.i
           j == enc.j
           n == CoeffCount(parms)
           q == Modulus(parms, i)
           prod == DyadicProductCoeffmod(Limb(enc.u, parms, i), Limb(enc.key.data[j], parms, i), n, q)
           stored == IF ~enc.is_ntt_form THEN InvNttLimb(prod, n, q) ELSE prod
           last == j + 1 = enc.key.size
       IN  /\ enc' = [enc EXCEPT !.destination.data[j] = SetLimb(@, parms, i, stored),
                                 !.j = IF last THEN 0 ELSE j + 1,
                                 !.i = IF last THEN i + 1 ELSE i,
                                 !.products = @ \cup {<<j, i>>}]
           /\ pc' = AsymAfterProduct(i, j, enc.key.size, CoeffModulusSize(parms))
    /\ UNCHANGED <<op, parms, cfg, svars>>

\* sample_poly_normal / sample_poly_cbd into u's buffer, for component j.
AsymNoise ==
    /\ op = "asym" /\ pc = "noise"
    /\ \E v \in [0 .. (CoeffCount(parms) - 1) -> NoiseDraws(cfg)] :
        LET res == SamplePolyNoise(cfg, parms, enc.u, v)
        IN  IF res.thrown
            THEN /\ pc' = "thrown"
                 /\ enc' = [enc EXCEPT !.error = "logic_error"]
            ELSE /\ pc' = "add"
                 /\ enc' = [enc EXCEPT !.u = res.poly, !.e = Append(@, res.poly)]
    /\ UNCHANGED <<op, parms, cfg, svars>>

\* The loop over the limbs that adds the noise to component j.
AsymAdd ==
    /\ op = "asym" /\ pc = "add"
    /\ LET j == enc.j
           n == CoeffCount(parms)
           u == IF enc.is_ntt_form THEN NttFrom(enc.u, parms, 0) ELSE enc.u
           sum == [k \in PolyIndex(parms) |->
                      (u[k] + enc.destination.data[j][k]) % Modulus(parms, k \div n)]
       IN  /\ enc' = [enc EXCEPT !.u = u, !.destination.data[j] = sum, !.j = j + 1]
           /\ pc' = IF j + 1 = enc.key.size THEN "done" ELSE "noise"
    /\ UNCHANGED <<op, parms, cfg, svars>>

\* ---- encrypt_zero_symmetric

SeedDoesNotFitOffByOne(p) == CoeffCount(p) * CoeffModulusSize(p) < SeedLength

\* poly_uint64_count < random_seed_type().size() + 1
SeedDoesNotFit(p) == CoeffCount(p) * CoeffModulusSize(p) < SeedLength + 1

SymSampleC1NoTransform(seed, p, buf, ntt, save) == SamplePolyUniformSeeded(seed, p, buf)

\* Lines 264-279: c1 sampled from the seeded generator, and transformed to
\* NTT form when it was sampled as the coefficient-form polynomial.
SymSampleC1(seed, p, buf, ntt, save) ==
    IF ntt \/ ~save
    THEN SamplePolyUniformSeeded(seed, p, buf)
    ELSE NttFrom(SamplePolyUniformSeeded(seed, p, buf), p, 0)

\* One pass of the loop of lines 289-307: limb i of c0.
SymC0Limb(sk, c1, noise, ntt, n, q) ==
    LET prod == DyadicProductCoeffmod(sk, c1, n, q)
        e    == IF ntt THEN NttLimb(noise, n, q) ELSE noise
        c0   == IF ntt THEN prod ELSE InvNttLimb(prod, n, q)
    IN  NegatePolyCoeffmod(AddPolyCoeffmod(e, c0, n, q), n, q)

\* Lines 309-316: c1 back to coefficient form.
SymRestoreC1(c1, p, ntt, save) ==
    IF ~ntt /\ ~save THEN InverseNttFrom(c1, p, 0) ELSE c1

SymWriteSeedAtZero(c1, seed, save) ==
    IF save
    THEN [k \in DOMAIN c1 |-> IF k < SeedLength THEN seed[k + 1] ELSE c1[k]]
    ELSE c1

\* Lines 318-323: the marker, then the seed from c1 + 1 on (a write past the
\* buffer is dropped here and recorded by SymSeedOverflows).
SymWriteSeed(c1, seed, save) ==
    IF save
    THEN [k \in DOMAIN c1 |->
            IF k = 0 THEN MaxRandom
            ELSE IF k <= SeedLength THEN seed[k] ELSE c1[k]]
    ELSE c1

\* Whether the writes of lines 321-322 leave c1's buffer.
SymSeedOverflows(c1, save) == save /\ ~(0 .. SeedLength \subseteq DOMAIN c1)

\* Lines 221-279: validation, capacity guard, resize, flags, seed and c1.
SymEnter ==
    /\ op = "sym" /\ pc = "call"
    /\ IF cfg.debug /\ ~enc.key_valid
       THEN /\ pc' = "thrown"
            /\ enc' = [enc EXCEPT !.error = "invalid_argument"]
       ELSE \E s \in 1 .. NumSeeds :
                LET save == IF enc.save_seed /\ SeedDoesNotFit(parms) THEN FALSE ELSE enc.save_seed
                    ct   == [Resize(enc.destination, parms, 2)
                                EXCEPT !.is_ntt_form = enc.is_ntt_form, !.scale = 1]
                    seed == SeedOf(s)
                    c1   == SymSampleC1(seed, parms, ct.data[1], enc.is_ntt_form, save)
                IN  /\ enc' = [enc EXCEPT !.save_seed = save,
                                          !.public_rng_seed = seed,
                                          !.rng_seed = seed,
                                          !.destination = [ct EXCEPT !.data[1] = c1]]
                    /\ pc' = "noise"
    /\ UNCHANGED <<op, parms, cfg, svars>>

\* Lines 281-287: the noise polynomial, from the bootstrap generator.
SymNoise ==
    /\ op = "sym" /\ pc = "noise"
    /\ \E v \in [0 .. (CoeffCount(parms) - 1) -> NoiseDraws(cfg)] :
        LET res == SamplePolyNoise(cfg, parms, StalePoly(parms), v)
        IN  IF res.thrown
            THEN /\ pc' = "thrown"
                 /\ enc' = [enc EXCEPT !.error = "logic_error"]
            ELSE /\ pc' = "compute"
                 /\ enc' = [enc EXCEPT !.noise = res.poly, !.e = <<res.poly>>]
    /\ UNCHANGED <<op, parms, cfg, svars>>

\* Lines 288-323: c0, c1 back to coefficient form, marker and seed.
SymFinish ==
    /\ op = "sym" /\ pc = "compute"
    /\ LET n  == CoeffCount(parms)
           c1 == enc.destination.data[1]
           c0 == [k \in PolyIndex(parms) |->
                    LET i == k \div n
                    IN  SymC0Limb(Limb(enc.key.data[0], parms, i), Limb(c1, parms, i),
                                  Limb(enc.noise, parms, i), enc.is_ntt_form, n,
                                  Modulus(parms, i))[k % n]]
           c1r == SymRestoreC1(c1, parms, enc.is_ntt_form, enc.save_seed)
       IN  enc' = [enc EXCEPT !.destination.data[0] = c0,
                              !.destination.data[1] = SymWriteSeed(c1r, enc.public_rng_seed, enc.save_seed),
                              !.oob = SymSeedOverflows(c1r, enc.save_seed)]
    /\ pc' = "done"
    /\ UNCHANGED <<op, parms, cfg, svars>>

\* ------------------------------------------- specification: generators

\* Without SEAL_DEBUG the key is not validated and the caller must pass a
\* valid one; with it an invalid key may arrive.
EncInit ==
    /\ op \in {"asym", "sym"}
    /\ pc = "call"
    /\ parms \in (IF op = "asym" THEN AsymParams ELSE EncParams)
    /\ cfg \in EncConfigs
    /\ \E ntt \in BOOLEAN, save \in BOOLEAN, valid \in BOOLEAN, k \in 1 .. NumKeys,
          ct \in {EmptyCiphertext, PriorCiphertext(parms)} :
        /\ (op = "asym" => ~save)
        /\ (~cfg.debug => valid)
        /\ enc = EncStart(ct, ntt, save,
                          IF op = "asym" THEN PublicKeyOf(k, parms) ELSE SecretKeyOf(k, parms),
                          valid, parms)
    /\ poly = <<>>
    /\ I = 0 /\ J = 0
    /\ draws = <<>>
    /\ ndraws = 0
    /\ rand = 0
    /\ rejected = FALSE
    /\ x = <<>>

EncNext ==
    \/ AsymEnter
    \/ AsymNttU
    \/ AsymProduct
    \/ AsymNoise
    \/ AsymAdd
    \/ SymEnter
    \/ SymNoise
    \/ SymFinish

SpecEnc == EncInit /\ [][EncNext]_vars

\* ------------------------------------------------ properties: samplers

Limbs == 0 .. (CoeffModulusSize(parms) - 1)

\* The word stored for coefficient i in limb j.
Stored(i, j) == poly[i + j * CoeffCount(parms)]

\* C6: sample_poly_ternary takes one draw d in {0,1,2} per coefficient, and
\* every limb of that coefficient holds (d - 1) mod q_i, inside [0, q_i):
\* q_i - 1 for -1, 0 for 0, 1 for 1.
C6_TernaryConsistent ==
    op = "ternary" =>
        /\ ndraws = I /\ Len(draws) = I
        /\ \A i \in 0 .. (I - 1) :
            LET d == draws[i + 1]
                v == d - 1
            IN  /\ d \in 0 .. 2
                /\ \A j \in Limbs :
                    LET q == Modulus(parms, j)
                    IN  /\ Stored(i, j) = v % q
                        /\ Stored(i, j) \in 0 .. (q - 1)
                        /\ Stored(i, j) = (CASE v = -1 -> q - 1 [] v = 0 -> 0 [] v = 1 -> 1)

\* A finished two-limb polynomial whose first draw was 0 (the value -1).
C6_Witness ==
    /\ op = "ternary" /\ pc = "done"
    /\ CoeffModulusSize(parms) = 2
    /\ draws = <<0, 2>>
    /\ Stored(0, 0) = Modulus(parms, 0) - 1
    /\ Stored(0, 1) = Modulus(parms, 1) - 1

RECURSIVE PopCount(_)
PopCount(n) == IF n = 0 THEN 0 ELSE (n % 2) + PopCount(n \div 2)

\* Number of set bits of the byte whose int8_t value is b.
BytePopCount(b) == PopCount(b % 256)

PopSum(b) ==
    BytePopCount(b[1]) + BytePopCount(b[2]) + BytePopCount(b[3])
        - BytePopCount(b[4]) - BytePopCount(b[5]) - BytePopCount(b[6])

CbdInRange(lo, hi) ==
    /\ (op = "cbd" /\ pc = "loop" /\ I = 0) =>
            \A b \in Byte : Hw(b) = BytePopCount(b) /\ Hw(b) \in 0 .. 8
    /\ (op = "cbd" /\ pc = "cbd") =>
            /\ x[3] \in 0 .. 31 /\ x[6] \in 0 .. 31
            /\ CbdSum(x) = PopSum(x)
            /\ CbdSum(x) \in lo .. hi
    /\ op = "cbd" => \A k \in 1 .. Len(draws) : draws[k] \in lo .. hi

\* C9 (as amended): the helper hw the sampling loop uses is the population
\* count of every byte value, negative ones included, and with the third and sixth byte masked to five bits the
\* sampled value is the difference of two counts of 8 + 8 + 5 bits, an
\* integer in [-21, 21].
C9_CbdValue == CbdInRange(-21, 21)

\* C9 (as stated): the same with the sampled value in [-15, 15].
C9_Original == CbdInRange(-15, 15)

\* The bytes ff ff ff 00 00 00 (the third masked to 1f): the value 21.
C9_Witness ==
    /\ op = "cbd" /\ pc = "cbd"
    /\ x[1] = -1 /\ x[4] = 0
    /\ CbdSum(x) = 21

\* C4 (as stated): with a standard deviation other than 3.2 every call of
\* sample_poly_cbd throws and leaves the destination untouched, whatever the
\* maximum deviation.
C4_Original ==
    (op = "cbd" /\ pc # "call" /\ cfg.noise_standard_deviation # 320) =>
        pc = "thrown" /\ poly = StalePoly(parms)

\* C4 (as amended): with a standard deviation other than 3.2 a call of
\* sample_poly_cbd throws, having drawn and written nothing, unless the
\* maximum deviation is zero, in which case it zero-fills the destination
\* and returns; with 3.2 it never throws.
C4_CbdRejects ==
    /\ (op = "cbd" /\ pc # "call" /\ cfg.noise_standard_deviation # 320) =>
            IF cfg.noise_max_deviation = 0
            THEN pc = "done" /\ poly = SetZeroPoly(parms)
            ELSE pc = "thrown" /\ poly = StalePoly(parms) /\ ndraws = 0
    /\ (op = "cbd" /\ cfg.noise_standard_deviation = 320) => pc # "thrown"

\* A call that threw on the deviation 3.19 and left the buffer as it was.
C4_Witness ==
    /\ op = "cbd" /\ pc = "thrown"
    /\ cfg.noise_standard_deviation = 319
    /\ poly = StalePoly(parms)

\* The signed sample of coefficient i: zero when sampling was skipped.
Sample(i) == IF cfg.noise_max_deviation = 0 THEN 0 ELSE draws[i + 1]

\* C10 (as stated): after sample_poly_normal or sample_poly_cbd returns, for
\* every parameter set every limb i of every coefficient stores v mod q_i,
\* inside [0, q_i), for the one signed sample v of that coefficient.
C10_Original ==
    (op \in {"normal", "cbd"} /\ pc = "done") =>
        \A i \in 0 .. (CoeffCount(parms) - 1), j \in Limbs :
            /\ Stored(i, j) = Sample(i) % Modulus(parms, j)
            /\ Stored(i, j) \in 0 .. (Modulus(parms, j) - 1)

\* C10 (as amended): the same for every limb whose modulus exceeds the
\* magnitude of the sample (-q_i <= v < q_i), hence for every limb of a
\* parameter set whose moduli all exceed the largest sample (21 for cbd, the
\* integer part of the maximum deviation for normal); in every limb the word
\* is v for v >= 0 and the wrapped sum v + q_i for v < 0.
C10_NoiseReduced ==
    (op \in {"normal", "cbd"} /\ pc = "done") =>
        /\ Len(draws) = (IF cfg.noise_max_deviation = 0 THEN 0 ELSE CoeffCount(parms))
        /\ \A i \in 0 .. (CoeffCount(parms) - 1), j \in Limbs :
            LET v == Sample(i)
                q == Modulus(parms, j)
            IN  /\ v \in (-21) .. 21
                /\ (op = "normal" =>
                        /\ v <= cfg.noise_max_deviation \div 100
                        /\ -v <= cfg.noise_max_deviation \div 100)
                /\ Stored(i, j) = (IF v >= 0 THEN v ELSE (v + q) % WordMod)
                /\ (-q <= v /\ v < q) =>
                        Stored(i, j) = v % q /\ Stored(i, j) \in 0 .. (q - 1)
                /\ q > 21 => Stored(i, j) = v % q

\* The samples -21 and 21 under the moduli 29 and 37.
C10_Witness ==
    /\ op = "cbd" /\ pc = "done"
    /\ parms = Parms(2, <<29, 37>>)
    /\ draws = <<-21, 21>>
    /\ Stored(0, 0) = 8 /\ Stored(0, 1) = 16
    /\ Stored(1, 0) = 21 /\ Stored(1, 1) = 21

\* Raw draws sample_poly_uniform keeps for modulus q that reduce to residue r.
Accepted(q, r) ==
    {v \in 0 .. MaxRandom : ~UniformRedraw(v, q) /\ BarrettReduce64(v, q) = r}

\* C5: sample_poly_uniform redraws a raw value exactly when it exceeds
\* max_multiple, the raw values it keeps hold equally many for each residue
\* of the modulus, and every stored coefficient is in [0, q_i).
C5_UniformNoBias ==
    op = "uniform" =>
        /\ rejected => rand > MaxMultiple(Modulus(parms, J))
        /\ pc = "done" =>
            \A j \in Limbs : \A r \in 0 .. (Modulus(parms, j) - 1) :
                Cardinality(Accepted(Modulus(parms, j), r)) =
                    Cardinality(Accepted(Modulus(parms, j), 0))
        /\ \A i \in 0 .. (CoeffCount(parms) - 1), j \in Limbs :
            (j < J \/ (j = J /\ i < I)) => Stored(i, j) \in 0 .. (Modulus(parms, j) - 1)


\* ---------------------------------------------- properties: generators

\* Coefficient k of the product of a and b modulo x^n + 1 and q, computed
\* term by term.
NegacyclicCoeff(a, b, n, q, k) ==
    SumTo([t \in 0 .. (n - 1) |->
              IF t <= k THEN (a[t] * b[k - t]) % q
              ELSE (q - ((a[t] * b[k + n - t]) % q)) % q], n) % q

NegacyclicMul(a, b, n, q) == [k \in 0 .. (n - 1) |-> NegacyclicCoeff(a, b, n, q, k)]

\* a * s + e of one limb in the domain named by ntt: pointwise with both in
\* NTT form, or the product modulo x^n + 1 of the coefficient forms.
\* a is in that domain, s is given in NTT form, e in coefficient form.
ProductPlusNoise(a, s, e, ntt, n, q) ==
    IF ntt
    THEN AddPolyCoeffmod(DyadicProductCoeffmod(a, s, n, q), NttLimb(e, n, q), n, q)
    ELSE AddPolyCoeffmod(NegacyclicMul(a, InvNttLimb(s, n, q), n, q), e, n, q)

AllLimbs == 0 .. (CoeffModulusSize(parms) - 1)

SymDone == op = "sym" /\ pc = "done"

C0 == enc.destination.data[0]

C1 == enc.destination.data[1]

\* The second component as a consumer reads it.
C1Effective ==
    IF C1[0] = MaxRandom
    THEN SamplePolyUniformSeeded([k \in 1 .. SeedLength |-> C1[k]], parms, StalePoly(parms))
    ELSE C1

\* c0 = -(a * s + e) in every limb, for the second component a.
EncryptsZeroWith(a) ==
    \A i \in AllLimbs :
        LET n == CoeffCount(parms)
            q == Modulus(parms, i)
        IN  Limb(C0, parms, i) =
                NegatePolyCoeffmod(
                    ProductPlusNoise(Limb(a, parms, i), Limb(enc.key.data[0], parms, i),
                                     Limb(enc.e[1], parms, i), enc.is_ntt_form, n, q), n, q)

\* C1: after encrypt_zero_symmetric returns, for every is_ntt_form and
\* save_seed, a seed stored in c1[1..] is the seed that keyed ciphertext_rng,
\* and c0 = -(c1_eff * s + e) mod q_i in every limb, in the domain named by
\* is_ntt_form, where c1_eff is c1 itself or, when c1 is seed-compressed,
\* sample_poly_uniform re-run on the stored seed.
C1_SymEncryptsZero ==
    SymDone =>
        /\ C1[0] = MaxRandom => \A k \in 1 .. SeedLength : C1[k] = enc.rng_seed[k]
        /\ EncryptsZeroWith(C1Effective)
        /\ enc.destination.size = 2
        /\ enc.destination.is_ntt_form = enc.is_ntt_form

\* A finished coefficient-form call whose c1 is seed-compressed, with noise.
C1_Witness ==
    /\ SymDone
    /\ ~enc.is_ntt_form /\ enc.save_seed_arg
    /\ C1[0] = MaxRandom
    /\ C1Effective # C1
    /\ \E k \in PolyIndex(parms) : enc.e[1][k] # 0
    /\ \E k \in PolyIndex(parms) : C0[k] # 0

\* Compression was requested and the polynomial can hold marker and seed.
CompressionApplied ==
    enc.save_seed_arg /\ CoeffCount(parms) * CoeffModulusSize(parms) >= SeedLength + 1

\* C2: after encrypt_zero_symmetric returns, word 0 of the second component
\* is all ones iff seed compression was applied; then words 1..seed_length
\* hold the seed that keyed the c1 stream, and otherwise word 0 is a residue
\* below the first modulus.
C2_MarkerIffCompressed ==
    SymDone =>
        /\ C1[0] = MaxRandom <=> CompressionApplied
        /\ CompressionApplied => \A k \in 1 .. SeedLength : C1[k] = enc.rng_seed[k]
        /\ ~CompressionApplied => C1[0] < Modulus(parms, 0)

\* A compressed c1 written over a destination that held a ciphertext.
C2_Witness ==
    /\ SymDone
    /\ CompressionApplied
    /\ enc.dest0 = PriorCiphertext(parms)
    /\ C1[0] = MaxRandom
    /\ C1[SeedLength] = enc.rng_seed[SeedLength]
    /\ enc.rng_seed # [k \in 1 .. SeedLength |-> MaxRandom]

\* The ciphertext a call with save_seed = false produces from the same seed,
\* key and noise: c1 literal in the domain named by is_ntt_form.
UncompressedResult ==
    LET a == SamplePolyUniformSeeded(enc.rng_seed, parms, StalePoly(parms))
    IN  /\ C1 = (IF enc.is_ntt_form THEN a ELSE InverseNttFrom(a, parms, 0))
        /\ C1[0] # MaxRandom
        /\ EncryptsZeroWith(C1)

\* C7: encrypt_zero_symmetric downgrades a compression request exactly when
\* coeff_count * coeff_modulus_size < seed_length + 1, raising no error; a
\* downgraded call yields the ciphertext of a call with save_seed = false;
\* and when compression is applied, the marker and every seed word are
\* written inside c1's coeff_count * coeff_modulus_size words.
C7_CapacityGuard ==
    op = "sym" =>
        /\ (pc \in {"noise", "compute", "done"} \/ enc.error = "logic_error") =>
                /\ (enc.save_seed_arg /\ ~enc.save_seed) <=>
                        (enc.save_seed_arg
                            /\ CoeffCount(parms) * CoeffModulusSize(parms) < SeedLength + 1)
                /\ enc.save_seed => enc.save_seed_arg
        /\ pc = "thrown" =>
                \/ enc.error = "invalid_argument" /\ cfg.debug /\ ~enc.key_valid
                \/ enc.error = "logic_error" /\ cfg.noise_standard_deviation # 320
        /\ (pc = "done" /\ enc.save_seed_arg /\ ~enc.save_seed) => UncompressedResult
        /\ (pc = "done" /\ enc.save_seed) =>
                /\ ~enc.oob
                /\ 0 .. SeedLength \subseteq DOMAIN C1
                /\ C1[0] = MaxRandom
                /\ \A k \in 1 .. SeedLength : C1[k] = enc.public_rng_seed[k]

\* A downgraded call at the largest polynomial that cannot hold the seed.
C7_Witness ==
    /\ SymDone
    /\ enc.save_seed_arg /\ ~enc.save_seed
    /\ CoeffCount(parms) * CoeffModulusSize(parms) = SeedLength
    /\ ~enc.is_ntt_form
    /\ UncompressedResult

\* The product of component j and limb i as it is stored.
StoredProduct(j, i) ==
    LET n == CoeffCount(parms)
        q == Modulus(parms, i)
        prod == DyadicProductCoeffmod(NttLimb(Limb(enc.u0, parms, i), n, q),
                                      Limb(enc.key.data[j], parms, i), n, q)
    IN  IF enc.is_ntt_form THEN prod ELSE InvNttLimb(prod, n, q)

AllProducts == (0 .. (enc.key.size - 1)) \X AllLimbs

\* The call has reached the loop that draws the noise.
AsymNoisePhase == pc \in {"noise", "add", "done"} \/ enc.error = "logic_error"

\* C8: in encrypt_zero_asymmetric each limb of u is transformed exactly once;
\* every product of component j and limb i is taken with that transformed
\* limb of the one u; no noise is drawn into u's buffer or added to a
\* component before all products are stored; and component j then gets its
\* own e_j in the domain of the stored product, so it ends as pk_j * u + e_j.
C8_AsymOrder ==
    op = "asym" =>
        /\ \A l \in AllLimbs :
            /\ enc.ntt_count[l] <= 1
            /\ AsymNoisePhase => enc.ntt_count[l] = 1
            /\ (pc \in {"ntt_u", "product"}) =>
                    Limb(enc.u, parms, l) =
                        (IF enc.ntt_count[l] = 1
                         THEN NttLimb(Limb(enc.u0, parms, l), CoeffCount(parms), Modulus(parms, l))
                         ELSE Limb(enc.u0, parms, l))
        /\ (pc \in {"ntt_u", "product"}) =>
                /\ enc.e = <<>>
                /\ \A pr \in enc.products :
                        Limb(enc.destination.data[pr[1]], parms, pr[2]) = StoredProduct(pr[1], pr[2])
        /\ (AsymNoisePhase \/ enc.e # <<>>) => enc.products = AllProducts
        /\ AsymNoisePhase =>
                \A j \in 0 .. (enc.key.size - 1), i \in AllLimbs :
                    Limb(enc.destination.data[j], parms, i) =
                        (IF j < enc.j
                         THEN ProductPlusNoise(
                                  IF enc.is_ntt_form
                                  THEN NttLimb(Limb(enc.u0, parms, i), CoeffCount(parms), Modulus(parms, i))
                                  ELSE Limb(enc.u0, parms, i),
                                  Limb(enc.key.data[j], parms, i), Limb(enc.e[j + 1], parms, i),
                                  enc.is_ntt_form, CoeffCount(parms), Modulus(parms, i))
                         ELSE StoredProduct(j, i))
        /\ pc = "done" => Len(enc.e) = enc.key.size /\ enc.j = enc.key.size

\* A finished coefficient-form call with three components and three limbs.
C8_Witness ==
    /\ op = "asym" /\ pc = "done"
    /\ enc.key.size = 3 /\ CoeffModulusSize(parms) = 3
    /\ ~enc.is_ntt_form
    /\ enc.e[1] # enc.e[3]
    /\ \E k \in PolyIndex(parms) : enc.u0[k] = Modulus(parms, k \div CoeffCount(parms)) - 1

\* C3: when either generator ends with a hard failure, the destination is
\* as it was before the call, or cleared.
C3_NoPartialCiphertext ==
    (op \in {"asym", "sym"} /\ pc = "thrown") =>
        \/ enc.destination = enc.dest0
        \/ enc.destination = EmptyCiphertext

====
